---------------------------- MODULE Spec2Model ----------------------------
(***************************************************************************)
(* A model of the MSSM electroweak spectrum generator driver:              *)
(*   generator/main.py    the pipeline (main, run)                         *)
(*   generator/config.py  configuration, set-up checks, process running    *)
(*   generator/data.py    the report parsers and their SLHA blocks         *)
(*                                                                         *)
(* Text is modelled as a sequence of one-character strings, so that the    *)
(* regular expressions of data.py are matched character by character.      *)
(* A float is modelled exactly, as <<n, d, e>> standing for n/d * 10^e in  *)
(* a canonical form; IEEE rounding is not modelled.                        *)
(***************************************************************************)
EXTENDS Integers, Sequences, FiniteSets, TLC

(***************************************************************************)
(* Bounds of the model.                                                    *)
(***************************************************************************)
\* longest report line of the section pass that does not start a section
MaxLineLen == 5
\* longest report line of the section pass that starts a section
MaxHeadLen == 1
\* number of report lines the section pass is run on
MaxLines == 2
\* number of blocks of a generated spectrum
MaxBase == 2
\* number of decay blocks of a decay report
MaxDecays == 2
\* number of matches of one pattern in a report
MaxMatches == 2

(***************************************************************************)
(* Characters.                                                             *)
(***************************************************************************)
\* \s
Space == {" "}
\* \d
Digit == {"0", "1", "2", "3", "4", "5", "6", "7", "8", "9"}
\* the letters that occur in the modelled texts
Letter == {"d", "e", "D", "E"}
\* \w
Word == Digit \cup Letter
\* [-+]
Sign == {"-", "+"}
\* [eEdD] of MicromegasOutput.NUM and [eE] of GM2CalcOutput.NUM
MicromegasExp == {"e", "E", "d", "D"}
GM2CalcExp == {"e", "E"}

DigitVal(c) ==
  CASE c = "0" -> 0 [] c = "1" -> 1 [] c = "2" -> 2 [] c = "3" -> 3
    [] c = "4" -> 4 [] c = "5" -> 5 [] c = "6" -> 6 [] c = "7" -> 7
    [] c = "8" -> 8 [] c = "9" -> 9

\* str.upper on one character
Upper(c) == CASE c = "d" -> "D" [] c = "e" -> "E" [] OTHER -> c

\* the first position from i on whose character is not in cls (Len(s)+1 if none):
\* where a greedy cls* that starts at i ends
RECURSIVE SkipWhile(_, _, _)
SkipWhile(s, i, cls) ==
  IF i <= Len(s) /\ s[i] \in cls THEN SkipWhile(s, i + 1, cls) ELSE i

(***************************************************************************)
(* NUM = [-+]?(?:\d*\.\d+|\d+)[eE][-+]?\d+  (the exponent mark is          *)
(* mandatory in GM2CalcOutput.NUM), matched at position i of s.  The       *)
(* result is the position of the last matched character, 0 for no match.   *)
(***************************************************************************)
MatchGM2Num(s, i) ==
  LET a == IF i <= Len(s) /\ s[i] \in Sign THEN i + 1 ELSE i
      b == SkipWhile(s, a, Digit)
      \* \d*\.\d+ : the position after the mantissa, 0 if it does not match
      c1 == IF b + 1 <= Len(s) /\ s[b] = "." /\ s[b + 1] \in Digit
            THEN SkipWhile(s, b + 1, Digit) ELSE 0
      \* \d+
      c2 == IF b > a THEN b ELSE 0
      ExpEnd(c) ==
        IF c # 0 /\ c <= Len(s) /\ s[c] \in GM2CalcExp
        THEN LET d == IF c + 1 <= Len(s) /\ s[c + 1] \in Sign THEN c + 2 ELSE c + 1
                 f == SkipWhile(s, d, Digit)
             IN  IF f > d THEN f - 1 ELSE 0
        ELSE 0
  IN  IF ExpEnd(c1) # 0 THEN ExpEnd(c1) ELSE ExpEnd(c2)

(***************************************************************************)
(* Floats: <<n, d, e>> is n/d * 10^e with d > 0 coprime to n and to 10 and *)
(* n not a multiple of 10; zero is <<0, 1, 0>>.                            *)
(***************************************************************************)
Abs(n) == IF n < 0 THEN -n ELSE n

RECURSIVE Gcd(_, _)
Gcd(a, b) == IF b = 0 THEN a ELSE Gcd(b, a % b)

RECURSIVE Pow10(_)
Pow10(k) == IF k = 0 THEN 1 ELSE 10 * Pow10(k - 1)

RECURSIVE NormTens(_, _, _)
NormTens(n, d, e) ==
  IF d % 2 = 0 THEN NormTens(n * 5, d \div 2, e - 1)
  ELSE IF d % 5 = 0 THEN NormTens(n * 2, d \div 5, e - 1)
  ELSE IF n % 10 = 0 THEN NormTens(n \div 10, d, e + 1)
  ELSE <<n, d, e>>

Norm(n, d, e) ==
  IF n = 0 THEN <<0, 1, 0>>
  ELSE LET s == IF d < 0 THEN -1 ELSE 1
           g == Gcd(Abs(n), Abs(d))
       IN  NormTens((s * n) \div g, (s * d) \div g, e)

FAdd(x, y) ==
  LET e == IF x[3] < y[3] THEN x[3] ELSE y[3]
  IN  Norm(x[1] * y[2] * Pow10(x[3] - e) + y[1] * x[2] * Pow10(y[3] - e),
           x[2] * y[2], e)

FSub(x, y) == FAdd(x, <<-y[1], y[2], y[3]>>)

\* defined for y # 0; Python raises ZeroDivisionError otherwise
FDiv(x, y) == Norm(x[1] * y[2], x[2] * y[1], x[3] - y[3])

FZero == <<0, 1, 0>>
FOne == <<1, 1, 0>>

RECURSIVE DigitsVal(_)
DigitsVal(s) ==
  IF s = <<>> THEN 0
  ELSE 10 * DigitsVal(SubSeq(s, 1, Len(s) - 1)) + DigitVal(s[Len(s)])

\* float() raises ValueError on a Fortran exponent mark
FloatOK(s) == \A i \in 1..Len(s) : s[i] \notin {"d", "D"}

\* float(s) for a text s that a NUM matched and FloatOK accepts; the exponent
\* is optional in MicromegasOutput.NUM
Float(s) ==
  LET a == IF s[1] \in Sign THEN 2 ELSE 1
      neg == s[1] = "-"
      b == SkipWhile(s, a, Digit)
      frac == b <= Len(s) /\ s[b] = "."
      c == IF frac THEN SkipWhile(s, b + 1, Digit) ELSE b
      intDigits == SubSeq(s, a, b - 1)
      fracDigits == IF frac THEN SubSeq(s, b + 1, c - 1) ELSE <<>>
      hasExp == c <= Len(s)
      d == IF hasExp /\ s[c + 1] \in Sign THEN c + 2 ELSE c + 1
      expNeg == hasExp /\ s[c + 1] = "-"
      ex == IF hasExp THEN DigitsVal(SubSeq(s, d, Len(s))) ELSE 0
      m == DigitsVal(intDigits \o fracDigits)
  IN  Norm(IF neg THEN -m ELSE m, 1,
           (IF expNeg THEN -ex ELSE ex) - Len(fracDigits))

(***************************************************************************)
(* Dictionaries (Python dict): functions on a finite set of keys.          *)
(***************************************************************************)
EmptyDict == [k \in {} |-> 0]

\* d[k] = v
Put(d, k, v) == [x \in DOMAIN d \cup {k} |-> IF x = k THEN v ELSE d[x]]

(***************************************************************************)
(* The state.                                                              *)
(***************************************************************************)
VARIABLES
  pc,           \* where the driver is
  env,          \* what is wrong with the configuration and the machine
  config,       \* the attributes of Config that are set conditionally
  child,        \* the command of the running child process, "" if none
  events,       \* the processes started and the files written, in order
  returncodes,  \* what process.wait() returned, in order
  files,        \* the working directory: file name -> document
  generated,    \* the documents the spectrum generator wrote
  output,       \* the report a parser is constructed from
  version,      \* the answer to gm2calc --version
  micromegas,   \* the result of MicromegasOutput.parse_output, or None
  gm2calc,      \* the GM2CalcOutput, or None
  decay,        \* what run_sdecay returned, or None
  block,        \* what to_slha_block returned, or None
  errors,       \* logger.error, in order
  warnings,     \* logger.warning, in order
  exitStatus,   \* the exit status of the driver, once pc is "exit" or "done"
  abort         \* why the driver exited: "", "config", "process", "parse"
                \* or "exception"

runVars ==
  <<pc, env, config, child, events, returncodes, files, generated, output,
    version, micromegas, gm2calc, decay, block, errors, warnings, exitStatus,
    abort>>

\* the section pass of GM2CalcOutput.parse_output
VARIABLES
  secPc,    \* "idle", or the position in the for loop: "for", "body", "end"
  line,     \* the loop variable: the report line of the current iteration
  tag,      \* the name of the current section, "" before the first one
  blocks,   \* section name -> (key -> float)
  nlines    \* how many lines of the report have been iterated over

secVars == <<secPc, line, tag, blocks, nlines>>

vars == <<runVars, secVars>>

(***************************************************************************)
(* Python values, as far as their type matters.                            *)
(***************************************************************************)
None == [type |-> "None"]
PyFloat(x) == [type |-> "float", val |-> x]
PyStr(t) == [type |-> "str", val |-> t]

\* no line is bound to the loop variable
NoLine == <<"\n">>

SecIdle ==
  /\ secPc = "idle" /\ line = NoLine /\ tag = <<>> /\ blocks = EmptyDict
  /\ nlines = 0

\* the driver's state before anything has happened, with out as the report
RunStart(out) ==
  /\ config = [sinderin |-> "None", micromegas_executable |-> "None"]
  /\ child = "" /\ events = <<>> /\ returncodes = <<>>
  /\ files = EmptyDict /\ generated = EmptyDict
  /\ output = out /\ version = "Unknown"
  /\ micromegas = None /\ gm2calc = None /\ decay = None /\ block = None
  /\ errors = <<>> /\ warnings = <<>> /\ exitStatus = 0 /\ abort = ""

RunIdle == RunStart(None)

NoEnv == [kind |-> "none", key |-> ""]

(***************************************************************************)
(* The section pass of GM2CalcOutput.parse_output.                         *)
(***************************************************************************)
\* the sentinel key of a number without a label
NoKey == <<"N", "O", " ", "K", "E", "Y">>

\* RE_START_WITH_ALPHA_NUM.match(line)
StartsSection(ln) == Len(ln) > 0 /\ ln[1] \in Word

\* str.strip
RECURSIVE StripRight(_)
StripRight(s) ==
  IF s # <<>> /\ s[Len(s)] \in Space THEN StripRight(SubSeq(s, 1, Len(s) - 1))
  ELSE s

Strip(s) == StripRight(SubSeq(s, SkipWhile(s, 1, Space), Len(s)))

\* re.sub(r"[^A-Z0-9 ]", "", line.strip().upper())
SectionName(ln) ==
  LET up == [i \in 1..Len(Strip(ln)) |-> Upper(Strip(ln)[i])]
      Keep(c) == c \in {"D", "E"} \cup Digit \cup {" "}
  IN  SelectSeq(up, Keep)

\* a RE_NUM_LINE that ended in $: only a line that is a number and nothing more
NumLineMatchWholeLine(ln) ==
  LET p == SkipWhile(ln, 1, Space)
      q == MatchGM2Num(ln, p)
  IN  IF q = 0 \/ q # Len(ln) THEN <<>> ELSE <<SubSeq(ln, p, q)>>

\* RE_NUM_LINE.match(line): the groups of the match, <<>> for no match
NumLineMatch(ln) ==
  LET p == SkipWhile(ln, 1, Space)
      q == MatchGM2Num(ln, p)
  IN  IF q = 0 THEN <<>> ELSE <<SubSeq(ln, p, q)>>

\* RE_NORMAL_LINE.match(line): the groups of the match, <<>> for no match.
\* The lazy label grows from the first character after the leading
\* whitespace until whitespace and a number follow it.
NormalLineMatch(ln) ==
  LET p == SkipWhile(ln, 1, Space)
      NumAfter(j) == MatchGM2Num(ln, SkipWhile(ln, j + 1, Space))
      ends == {j \in p..Len(ln) - 1 : ln[j + 1] \in Space /\ NumAfter(j) # 0}
  IN  IF ends = {} THEN <<>>
      ELSE LET j == CHOOSE x \in ends : \A y \in ends : x <= y
           IN  <<SubSeq(ln, p, j),
                 SubSeq(ln, SkipWhile(ln, j + 1, Space), NumAfter(j))>>

\* one iteration of the loop body: the new <<tag, blocks>>
SectionBody(ln, tg, bl) ==
  IF StartsSection(ln)
  THEN <<SectionName(ln), Put(bl, SectionName(ln), EmptyDict)>>
  ELSE IF tg # <<>> /\ NumLineMatch(ln) # <<>>
  THEN <<tg, Put(bl, tg, Put(bl[tg], NoKey, Float(NumLineMatch(ln)[1])))>>
  ELSE IF tg # <<>> /\ NormalLineMatch(ln) # <<>>
  THEN <<tg, Put(bl, tg, Put(bl[tg], NormalLineMatch(ln)[1],
                              Float(NormalLineMatch(ln)[2])))>>
  ELSE <<tg, bl>>

\* the characters the modelled report lines are written in
Alphabet == {" ", "1", "e", "."}

Texts(n) == UNION {[1..k -> Alphabet] : k \in 0..n}

\* the lines a report is made of
ReportLines ==
  {l \in Texts(MaxLineLen) : ~StartsSection(l)}
    \cup {l \in Texts(MaxHeadLen) : StartsSection(l)}

\* for line in output.split("\n")
ForLine ==
  /\ secPc = "for" /\ nlines < MaxLines
  /\ \E l \in ReportLines : line' = l
  /\ nlines' = nlines + 1
  /\ secPc' = "body"
  /\ UNCHANGED <<tag, blocks>>
  /\ UNCHANGED runVars

LoopBody ==
  /\ secPc = "body"
  /\ tag' = SectionBody(line, tag, blocks)[1]
  /\ blocks' = SectionBody(line, tag, blocks)[2]
  /\ secPc' = "end"
  /\ UNCHANGED <<line, nlines>>
  /\ UNCHANGED runVars

\* back to the head of the loop
EndBody ==
  /\ secPc = "end"
  /\ line' = NoLine
  /\ secPc' = "for"
  /\ UNCHANGED <<tag, blocks, nlines>>
  /\ UNCHANGED runVars

SecNext == ForLine \/ LoopBody \/ EndBody

\* parse_output is entered at its section pass, on any report
SecInit ==
  /\ pc = "GM2CalcOutput.parse_output" /\ env = NoEnv
  /\ RunIdle
  /\ secPc = "for" /\ line = NoLine /\ tag = <<>> /\ blocks = EmptyDict
  /\ nlines = 0

SpecSection == SecInit /\ [][SecNext]_vars

(***************************************************************************)
(* check_result(title, match)                                              *)
(***************************************************************************)
\* len(match) == 0: logger.error and exit(1)
CheckResultExits(match) == Len(match) = 0

\* len(match) > 1: logger.warning
CheckResultWarns(match) == Len(match) > 1

\* a check_result that returned the last match
CheckResultLastValue(match) == match[Len(match)]

\* return match[0]
CheckResultValue(match) == match[1]

\* f"Cannot find {title} in micrOMEGAs output."
CheckResultError(title) == [field |-> title, source |-> "micrOMEGAs"]

\* f"Multiple {title} found in output; first is used."
CheckResultWarning(title) == [field |-> title, used |-> "first"]

(***************************************************************************)
(* A parser's outcome: status "ok" with the result, "exit" (check_result   *)
(* called exit(1)) or "raise" (an exception nobody catches), and what was  *)
(* logged on the way.                                                      *)
(***************************************************************************)
Outcome(st, res, errs, warns, exc) ==
  [status |-> st, result |-> res, errors |-> errs, warnings |-> warns,
   exception |-> exc]

\* the warnings of the check_result calls made on lists[1..n]
RECURSIVE WarningsOf(_, _, _)
WarningsOf(titles, lists, n) ==
  IF n = 0 THEN <<>>
  ELSE WarningsOf(titles, lists, n - 1)
         \o (IF CheckResultWarns(lists[n])
             THEN <<CheckResultWarning(titles[n])>> ELSE <<>>)

(***************************************************************************)
(* MicromegasOutput.parse_output.  A report is given by what the three     *)
(* patterns find in it: report.omega is RE_OMEGA.findall(output), a list   *)
(* of texts, report.proton and report.neutron are lists of <<SI, SD>>.     *)
(***************************************************************************)
\* the titles handed to check_result for omega, proton and neutron
MicromegasTitles == <<"omega_DM", "proton", "proton">>

MicromegasParse(report) ==
  LET lists == <<report.omega, report.proton, report.neutron>>
      titles == MicromegasTitles
      empty == {i \in 1..3 : CheckResultExits(lists[i])}
      stop == CHOOSE i \in empty : \A j \in empty : i <= j
      omega == CheckResultValue(lists[1])
      proton == CheckResultValue(lists[2])
      neutron == CheckResultValue(lists[3])
      texts == <<omega, proton[1], proton[2], neutron[1], neutron[2]>>
  IN  IF empty # {}
      THEN Outcome("exit", None, <<CheckResultError(titles[stop])>>,
                   WarningsOf(titles, lists, stop - 1), "")
      ELSE IF \E i \in 1..5 : ~FloatOK(texts[i])
      THEN Outcome("raise", None, <<>>, WarningsOf(titles, lists, 3),
                   "ValueError")
      ELSE Outcome("ok",
                   [omega_h2 |-> PyFloat(Float(omega)),
                    proton_si |-> PyFloat(Float(proton[1])),
                    proton_sd |-> PyFloat(Float(proton[2])),
                    neutron_si |-> PyFloat(Float(neutron[1])),
                    neutron_sd |-> PyFloat(Float(neutron[2]))],
                   <<>>, WarningsOf(titles, lists, 3), "")

(***************************************************************************)
(* yaslha.block.Block: a name, a head comment and a comment before the     *)
(* head (lists of strings), and the entries <<key, value, comment>> in the *)
(* order of their insertion.                                               *)
(***************************************************************************)
Block(name, comment, entries) ==
  [name |-> name, comment |-> comment, pre_comment |-> <<>>,
   entries |-> entries]

\* a to_slha_block with the keys 3 and 4 given to each other's quantity
MicromegasBlockSwapped(self) ==
  [name |-> "DM", comment |-> <<"calculated by micrOMEGAs">>,
   pre_comment |-> <<>>,
   entries |-> << <<1, self.omega_h2, "OmegaDM h^2">>,
                  <<2, self.proton_si, "proton SI [pb]">>,
                  <<3, self.neutron_si, "proton SD [pb]">>,
                  <<4, self.proton_sd, "neutron SI [pb]">>,
                  <<5, self.neutron_sd, "neutron SD [pb]">> >>]

\* MicromegasOutput.to_slha_block
MicromegasBlock(self) ==
  Block("DM", <<"calculated by micrOMEGAs">>,
        << <<1, self.omega_h2, "OmegaDM h^2">>,
           <<2, self.proton_si, "proton SI [pb]">>,
           <<3, self.proton_sd, "proton SD [pb]">>,
           <<4, self.neutron_si, "neutron SI [pb]">>,
           <<5, self.neutron_sd, "neutron SD [pb]">> >>)

(***************************************************************************)
(* GM2CalcOutput.parse_output after its section pass.  A report is given   *)
(* by report.best, RE_2L.findall(output) (a list of <<value, uncertainty>> *)
(* texts), and report.blocks, the dictionary the section pass built, with  *)
(* section names and keys written as strings.                              *)
(***************************************************************************)
\* the lookups of lines 95 to 110, in their order: <<field, section, key>>
GM2Lookups ==
  << <<"1L", "FULL 1L WITH TANBETA RESUMMATION", "sum">>,
     <<"1L_no_resum", "FULL 1L WITHOUT TANBETA RESUMMATION", "NO KEY">>,
     <<"WHN", "1L APPROXIMATION WITH TANBETA RESUMMATION", "W-H-nu">>,
     <<"WHL", "1L APPROXIMATION WITH TANBETA RESUMMATION", "W-H-muL">>,
     <<"BHL", "1L APPROXIMATION WITH TANBETA RESUMMATION", "B-H-muL">>,
     <<"BHR", "1L APPROXIMATION WITH TANBETA RESUMMATION", "B-H-muR">>,
     <<"BLR", "1L APPROXIMATION WITH TANBETA RESUMMATION", "B-muL-muR">>,
     <<"2L", "2L BEST WITH TANBETA RESUMMATION", "NO KEY">>,
     <<"2L_no_resum", "2L BEST WITHOUT TANBETA RESUMMATION", "NO KEY">>,
     <<"2L_photonic", "PHOTONIC WITH TANBETA RESUMMATION", "sum">>,
     <<"2L_fermion",
       "FERMIONSFERMION APPROXIMATION WITH TANBETA RESUMMATION", "sum">>,
     <<"2L_a",
       "2LA 1L INSERTIONS INTO 1L SM DIAGRAM WITH TANBETA RESUMMATION",
       "sum">> >>

\* the lookup of line 115
TbCorLookup ==
  <<"tb_cor", "TANBETA CORRECTION", "amu(1L) * (1 / (1 + Delta_mu) - 1) =">>

\* blocks[section][key] raises KeyError unless this holds
HasEntry(bl, lookup) ==
  lookup[2] \in DOMAIN bl /\ lookup[3] \in DOMAIN bl[lookup[2]]

\* result["1L+2L"] and result["1L+2L_unc"], lines 93 and 94
BestValueFields(best_value) ==
  ("1L+2L" :> PyStr(best_value[1])) @@ ("1L+2L_unc" :> PyStr(best_value[2]))

\* 1 / (tb_cor / result["1L_no_resum"] + 1) - 1; ZeroDivisionError when
\* DeltaMuDefined fails
DeltaMuDefined(tb_cor, no_resum) ==
  no_resum # FZero /\ FAdd(FDiv(tb_cor, no_resum), FOne) # FZero

DeltaMu(tb_cor, no_resum) ==
  FSub(FDiv(FOne, FAdd(FDiv(tb_cor, no_resum), FOne)), FOne)

GM2CalcParse(report) ==
  LET bl == report.blocks
      all == GM2Lookups \o <<TbCorLookup>>
      Val(lookup) == bl[lookup[2]][lookup[3]]
      looked ==
        [f \in {GM2Lookups[i][1] : i \in 1..Len(GM2Lookups)} |->
           LET i == CHOOSE j \in 1..Len(GM2Lookups) : GM2Lookups[j][1] = f
           IN  PyFloat(Val(GM2Lookups[i]))]
      warns == WarningsOf(<<"1L+2L">>, <<report.best>>, 1)
      no_resum == Val(GM2Lookups[2])
  IN  IF CheckResultExits(report.best)
      THEN Outcome("exit", None, <<CheckResultError("1L+2L")>>, <<>>, "")
      ELSE IF \E i \in 1..Len(all) : ~HasEntry(bl, all[i])
      THEN Outcome("raise", None, <<>>, warns, "KeyError")
      ELSE IF ~DeltaMuDefined(Val(TbCorLookup), no_resum)
      THEN Outcome("raise", None, <<>>, warns, "ZeroDivisionError")
      ELSE Outcome("ok",
                   BestValueFields(CheckResultValue(report.best))
                     @@ looked
                     @@ ("1L+2L_no_resum" :>
                           PyFloat(FAdd(no_resum, Val(GM2Lookups[9]))))
                     @@ ("delta_mu" :>
                           PyFloat(DeltaMu(Val(TbCorLookup), no_resum))),
                   <<>>, warns, "")

\* the convention of GM2CalcOutput.to_slha_block: <<index, key, comment>>
GM2Convention ==
  << <<1, "1L", "1-loop result">>,
     <<2, "1L+2L", "2-loop result">>,
     <<9, "1L+2L_unc", "uncertainty for 2-loop result">>,
     <<10, "1L_no_resum", "1-loop without resummation">>,
     <<20, "1L+2L_no_resum", "2-loop without resummation">>,
     <<100, "delta_mu", "delta_mu">>,
     <<101, "WHN", "MI-approx W-H-nu">>,
     <<102, "WHL", "MI-approx W-H-L">>,
     <<103, "BHL", "MI-approx B-H-L">>,
     <<104, "BHR", "MI-approx B-H-R">>,
     <<105, "BLR", "MI-approx B-L-R">>,
     <<201, "2L_photonic", "2-loop photonic">>,
     <<202, "2L_fermion", "2-loop fermion/sfermion">>,
     <<203, "2L_a", "2-loop (a)">> >>

\* GM2CalcOutput.to_slha_block; self is [data, version]
GM2CalcBlock(self) ==
  Block("GM2", <<"calculated by GM2Calc v", self.version>>,
        [i \in 1..Len(GM2Convention) |->
           <<GM2Convention[i][1], self.data[GM2Convention[i][2]],
             GM2Convention[i][3]>>])

(***************************************************************************)
(* The driver: main, Config.__init__ and its set-up checks, run.           *)
(***************************************************************************)
\* sequences without repetition of at most n elements of S
Arrangements(S, n) ==
  {q \in UNION {[1..k -> S] : k \in 0..n} :
     \A i, j \in 1..Len(q) : i # j => q[i] # q[j]}

Lists(S, n) == UNION {[1..k -> S] : k \in 0..n}

(***************************************************************************)
(* The inputs.                                                             *)
(***************************************************************************)
\* the settings read by __get_config, in the order of Config.__init__
MainSettings ==
  <<"calculator", "simsusy", "gm2calc", "sdecay", "make", "micromegas_dir",
    "source_file", "executable_name">>
SinderinSettings == <<"converter", "ufo_model">>

Range(q) == {q[i] : i \in 1..Len(q)}

\* at most one thing is wrong
Envs ==
  {NoEnv, [kind |-> "config_file", key |-> ""],
   [kind |-> "compile", key |-> ""]}
    \cup {[kind |-> k, key |-> x] :
            k \in {"missing", "invalid"},
            x \in Range(MainSettings) \cup Range(SinderinSettings)}
    \cup {[kind |-> "exe", key |-> x] :
            x \in {"simsusy", "gm2calc", "make", "sdecay"}}
    \cup {[kind |-> "path", key |-> x] :
            x \in {"micromegas_dir", "source_file"}}
    \cup {[kind |-> "sdecay_in", key |-> x] : x \in {"missing", "invalid"}}

ExitCodes == {0, 1}

PlainBlock(name) == Block(name, <<>>, <<>>)

\* what the spectrum generator writes: the extended and the legacy format
Slha2Docs ==
  {[i \in 1..Len(q) |-> PlainBlock(q[i])] :
     q \in Arrangements({"MINPAR", "MASS", "NMIX"}, MaxBase)}

PyInt(n) == [type |-> "int", val |-> n]

Slha1Docs ==
  {<<PlainBlock("MASS")>>,
   <<PlainBlock("MASS"),
     Block("GM2CalcConfig", <<>>, << <<0, PyInt(0), "">> >>)>>}

\* what the decay calculator writes
SdecayDocs ==
  {[dcinfo |-> PlainBlock("DCINFO"),
    decays |-> [i \in 1..Len(q) |-> PlainBlock(q[i])]] :
     q \in Arrangements({"DECAY 6", "DECAY 24", "DECAY 25"}, MaxDecays)}

Versions == {"1.7.5"}

\* texts a NUM of MicromegasOutput matches: 10, 0.5 and Fortran's 2d1
T10 == <<"1", "e", "1">>
THalf == <<".", "5">>
TFortran == <<"2", "d", "1">>

MicromegasReports ==
  [omega : Lists({T10, THalf, TFortran}, MaxMatches),
   proton : Lists({<<T10, THalf>>, <<THalf, T10>>, <<TFortran, T10>>},
                  MaxMatches),
   neutron : Lists({<<T10, THalf>>, <<THalf, T10>>, <<T10, TFortran>>},
                   MaxMatches)]

\* the reports of the relic-density calculator in a run of the driver
MicromegasRunReports ==
  {[omega |-> <<T10>>, proton |-> << <<T10, THalf>> >>,
    neutron |-> << <<THalf, T10>> >>],
   [omega |-> <<THalf, T10>>, proton |-> << <<T10, THalf>> >>,
    neutron |-> << <<THalf, T10>> >>],
   [omega |-> <<T10>>, proton |-> << <<T10, THalf>> >>, neutron |-> <<>>],
   [omega |-> <<TFortran>>, proton |-> << <<T10, THalf>> >>,
    neutron |-> << <<THalf, T10>> >>]}

\* the blocks of a GM2Calc report: the entry of every lookup but the one
\* dropped (0: none), with values that differ from lookup to lookup
GM2Blocks(variant, dropped) ==
  LET all == GM2Lookups \o <<TbCorLookup>>
      kept == {i \in 1..Len(all) : i # dropped}
      Value(i) ==
        IF i = 2 /\ variant = "zero" THEN FZero
        ELSE IF i = 2 /\ variant = "negative" THEN Norm(-25, 10, 0)
        ELSE IF i = Len(all) /\ variant = "cancel" THEN Norm(-3, 1, 0)
        ELSE Norm(i + 1, 1, 0)
  IN  [sec \in {all[i][2] : i \in kept} |->
         [key \in {all[i][3] : i \in {j \in kept : all[j][2] = sec}} |->
            Value(CHOOSE i \in kept : all[i][2] = sec /\ all[i][3] = key)]]

BestA == << <<"1", "e", "1">>, <<"2", "e", "-", "1">> >>
BestB == << <<"-", "3", ".", "5", "E", "0">>, <<"1", "e", "0">> >>

GM2Reports ==
  {[best |-> b, blocks |-> GM2Blocks(v, d)] :
     b \in Lists({BestA, BestB}, MaxMatches),
     v \in {"plain", "zero", "negative", "cancel"},
     d \in 0..Len(GM2Lookups) + 1}

\* the reports of the magnetic-moment calculator in a run of the driver
GM2RunReports ==
  {[best |-> <<BestA>>, blocks |-> GM2Blocks("plain", 0)],
   [best |-> <<BestB, BestA>>, blocks |-> GM2Blocks("negative", 0)],
   [best |-> <<>>, blocks |-> GM2Blocks("plain", 0)],
   [best |-> <<BestA>>, blocks |-> GM2Blocks("plain", 1)]}

(***************************************************************************)
(* Config.run_process                                                      *)
(***************************************************************************)
\* a check of the exit status that takes only a negative one for a failure
ProcessFailedIfNegative(return_code) == return_code < 0

\* return_code != 0
ProcessFailed(return_code) == return_code # 0

\* the status of exit(), called without a code on line 54: SystemExit(None)
ExitWithoutCode == 0

\* subprocess.Popen(command, ...)
Popen(command) ==
  /\ child = ""
  /\ child' = command
  /\ events' = Append(events, command)

\* sys.exit(code) or exit(code) after the logging of errs
Exit(code, why, errs) ==
  /\ pc' = "exit"
  /\ exitStatus' = code
  /\ abort' = why
  /\ errors' = errors \o errs

\* the child's output has been read to its end and process.wait() returned
Waited(command, return_code) ==
  /\ child = command
  /\ child' = ""
  /\ returncodes' = Append(returncodes, return_code)

\* lines 51 to 54
RunFailed ==
  Exit(ExitWithoutCode, "process", <<[field |-> "exit code", source |-> "run"]>>)

(***************************************************************************)
(* Config.__init__                                                         *)
(***************************************************************************)
\* __get_config(config, key) logs an error and calls sys.exit(1)
GetConfigExits(key) == env.kind \in {"missing", "invalid"} /\ env.key = key

\* all(k in sinderin_config for k in ["converter", "ufo_model"])
SinderinKeysPresent ==
  \A i \in 1..Len(SinderinSettings) :
    ~(env.kind = "missing" /\ env.key = SinderinSettings[i])

ConfigError(what) == [field |-> what, source |-> "config"]

\* lines 69 to 96
ConfigInit ==
  /\ pc = "Config.__init__"
  /\ IF env.kind = "config_file"
     THEN Exit(1, "config", <<ConfigError("config file")>>) /\ UNCHANGED config
     ELSE IF \E i \in 1..Len(MainSettings) : GetConfigExits(MainSettings[i])
     THEN Exit(1, "config", <<ConfigError(env.key)>>) /\ UNCHANGED config
     ELSE IF SinderinKeysPresent
               /\ \E i \in 1..Len(SinderinSettings) :
                    GetConfigExits(SinderinSettings[i])
     THEN Exit(1, "config", <<ConfigError(env.key)>>) /\ UNCHANGED config
     ELSE /\ pc' = "_setup_simsusy"
          /\ config' = [config EXCEPT
                        !.sinderin = IF SinderinKeysPresent THEN "set"
                                     ELSE "None"]
          /\ UNCHANGED <<exitStatus, abort, errors>>
  /\ UNCHANGED secVars
  /\ UNCHANGED <<env, child, events, returncodes, files, generated, output,
                 version, micromegas, gm2calc, decay, block, warnings>>

\* shutil.which(...) is None
NotFound(exe) == env.kind = "exe" /\ env.key = exe

SetupCheck(here, failed, what, next) ==
  /\ pc = here
  /\ IF failed
     THEN Exit(1, "config", <<ConfigError(what)>>)
     ELSE pc' = next /\ UNCHANGED <<exitStatus, abort, errors>>
  /\ UNCHANGED secVars
  /\ UNCHANGED <<env, config, child, events, returncodes, files, generated,
                 output, version, micromegas, gm2calc, decay, block, warnings>>

SetupSimsusy ==
  SetupCheck("_setup_simsusy", NotFound("simsusy"), "simsusy", "_setup_gm2calc")

SetupGm2calc ==
  SetupCheck("_setup_gm2calc", NotFound("gm2calc"), "gm2calc",
             "_setup_micromegas")

\* lines 120 to 149: the checks, the copy of the source, the start of make
SetupMicromegas ==
  /\ pc = "_setup_micromegas"
  /\ IF NotFound("make") \/ env.kind = "path"
     THEN /\ Exit(1, "config", <<ConfigError(env.key)>>)
          /\ UNCHANGED <<child, events>>
     ELSE /\ pc' = "make"
          /\ Popen("make")
          /\ UNCHANGED <<exitStatus, abort, errors>>
  /\ UNCHANGED secVars
  /\ UNCHANGED <<env, config, returncodes, files, generated, output, version,
                 micromegas, gm2calc, decay, block, warnings>>

\* lines 149 to 156: make has ended
SetupMicromegasCompiled ==
  /\ pc = "make"
  /\ \E rc \in ExitCodes :
       /\ Waited("make", rc)
       /\ IF ProcessFailed(rc)
          THEN RunFailed /\ UNCHANGED config
          ELSE IF env.kind = "compile"
          THEN Exit(1, "config", <<ConfigError("compilation")>>)
                 /\ UNCHANGED config
          ELSE /\ pc' = "_setup_sdecay"
               /\ config' = [config EXCEPT !.micromegas_executable = "set"]
               /\ UNCHANGED <<exitStatus, abort, errors>>
  /\ UNCHANGED secVars
  /\ UNCHANGED <<env, events, files, generated, output, version, micromegas,
                 gm2calc, decay, block, warnings>>

\* _setup_sdecay; then main calls run
SetupSdecay ==
  SetupCheck("_setup_sdecay", NotFound("sdecay") \/ env.kind = "sdecay_in",
             "sdecay", "run_simsusy")

(***************************************************************************)
(* run                                                                     *)
(***************************************************************************)
\* the steps of a run, as they are recorded in events
SimsusyCmd == "simsusy run <calculator> <input> .slha2"
SimsusyV1Cmd == "simsusy run <calculator> --v1 <input> .slha1"
MicromegasCmd == "micromegas .slha1"
GM2VersionCmd == "gm2calc --version"
WriteGM2In == "write .gm2in"
GM2Cmd == "gm2calc --slha-input-file=.gm2in"
SdecayCmd == "sdecay"
WriteSlha2 == "write .slha2"
SinderinCmd == "python <converter> <ufo_model> .slha2"
WriteSinderin == "write .sinderin"

\* config.run_simsusy(input_path, slha2_path): the start of the process
RunSimsusy ==
  /\ pc = "run_simsusy"
  /\ pc' = "simsusy"
  /\ Popen(SimsusyCmd)
  /\ UNCHANGED secVars
  /\ UNCHANGED <<env, config, returncodes, files, generated, output, version,
                 micromegas, gm2calc, decay, block, errors, warnings,
                 exitStatus, abort>>

\* ... and its end; the generator has written the extended-format file
RunSimsusyEnd ==
  /\ pc = "simsusy"
  /\ \E rc \in ExitCodes, doc \in Slha2Docs :
       /\ Waited(SimsusyCmd, rc)
       /\ IF ProcessFailed(rc)
          THEN RunFailed /\ UNCHANGED <<files, generated>>
          ELSE /\ pc' = "run_simsusy_v1"
               /\ files' = Put(files, ".slha2", doc)
               /\ generated' = Put(generated, ".slha2", doc)
               /\ UNCHANGED <<exitStatus, abort, errors>>
  /\ UNCHANGED secVars
  /\ UNCHANGED <<env, config, events, output, version, micromegas, gm2calc,
                 decay, block, warnings>>

\* config.run_simsusy("--v1", input_path, slha1_path)
RunSimsusyV1 ==
  /\ pc = "run_simsusy_v1"
  /\ pc' = "simsusy_v1"
  /\ Popen(SimsusyV1Cmd)
  /\ UNCHANGED secVars
  /\ UNCHANGED <<env, config, returncodes, files, generated, output, version,
                 micromegas, gm2calc, decay, block, errors, warnings,
                 exitStatus, abort>>

RunSimsusyV1End ==
  /\ pc = "simsusy_v1"
  /\ \E rc \in ExitCodes, doc \in Slha1Docs :
       /\ Waited(SimsusyV1Cmd, rc)
       /\ IF ProcessFailed(rc)
          THEN RunFailed /\ UNCHANGED <<files, generated>>
          ELSE /\ pc' = "run_micromegas"
               /\ files' = Put(files, ".slha1", doc)
               /\ generated' = Put(generated, ".slha1", doc)
               /\ UNCHANGED <<exitStatus, abort, errors>>
  /\ UNCHANGED secVars
  /\ UNCHANGED <<env, config, events, output, version, micromegas, gm2calc,
                 decay, block, warnings>>

\* run_micromegas, lines 179 to 184
RunMicromegas ==
  /\ pc = "run_micromegas"
  /\ IF config.micromegas_executable = "None"
     THEN /\ Exit(1, "config", <<ConfigError("micrOMEGAs")>>)
          /\ UNCHANGED <<child, events>>
     ELSE /\ pc' = "micromegas"
          /\ Popen(MicromegasCmd)
          /\ UNCHANGED <<exitStatus, abort, errors>>
  /\ UNCHANGED secVars
  /\ UNCHANGED <<env, config, returncodes, files, generated, output, version,
                 micromegas, gm2calc, decay, block, warnings>>

\* a parser has ended with outcome o; next is where the driver goes on
Parsed(o, next) ==
  /\ warnings' = warnings \o o.warnings
  /\ IF o.status = "ok"
     THEN pc' = next /\ UNCHANGED <<exitStatus, abort, errors>>
     ELSE IF o.status = "exit"
     THEN Exit(1, "parse", o.errors)
     ELSE Exit(1, "exception", <<[field |-> o.exception, source |-> "Python"]>>)

\* run_micromegas, lines 184 to 188: the end of the process, and
\* MicromegasOutput(output)
RunMicromegasEnd ==
  /\ pc = "micromegas"
  /\ \E rc \in ExitCodes, report \in MicromegasRunReports :
       /\ Waited(MicromegasCmd, rc)
       /\ IF ProcessFailed(rc)
          THEN RunFailed /\ UNCHANGED <<output, micromegas, warnings>>
          ELSE /\ output' = report
               /\ micromegas' = MicromegasParse(report).result
               /\ Parsed(MicromegasParse(report), "run_gm2calc")
  /\ UNCHANGED secVars
  /\ UNCHANGED <<env, config, events, files, generated, version, gm2calc, decay,
                 block>>

\* run_gm2calc, line 192: the version query
RunGM2Version ==
  /\ pc = "run_gm2calc"
  /\ pc' = "gm2calc_version"
  /\ Popen(GM2VersionCmd)
  /\ UNCHANGED secVars
  /\ UNCHANGED <<env, config, returncodes, files, generated, output, version,
                 micromegas, gm2calc, decay, block, errors, warnings,
                 exitStatus, abort>>

\* original_input["GM2CalcConfig", 0] = 1
ForceDetailed(doc) ==
  LET flag == Block("GM2CalcConfig", <<>>, << <<0, PyInt(1), "">> >>)
  IN  IF \E i \in 1..Len(doc) : doc[i].name = "GM2CalcConfig"
      THEN [i \in 1..Len(doc) |->
              IF doc[i].name = "GM2CalcConfig" THEN flag ELSE doc[i]]
      ELSE Append(doc, flag)

\* run_gm2calc, line 192: the end of the version query
RunGM2VersionEnd ==
  /\ pc = "gm2calc_version"
  /\ \E rc \in ExitCodes, v \in Versions :
       /\ Waited(GM2VersionCmd, rc)
       /\ IF ProcessFailed(rc)
          THEN RunFailed /\ UNCHANGED version
          ELSE /\ pc' = "gm2calc_input"
               /\ version' = v
               /\ UNCHANGED <<exitStatus, abort, errors>>
  /\ UNCHANGED secVars
  /\ UNCHANGED <<env, config, events, files, generated, output, micromegas,
                 gm2calc, decay, block, warnings>>

\* run_gm2calc, lines 193 to 197: the derived input is written and the real
\* run started on it
RunGM2 ==
  /\ pc = "gm2calc_input"
  /\ pc' = "gm2calc"
  /\ files' = Put(files, ".gm2in", ForceDetailed(files[".slha1"]))
  /\ child = ""
  /\ child' = GM2Cmd
  /\ events' = events \o <<WriteGM2In, GM2Cmd>>
  /\ UNCHANGED secVars
  /\ UNCHANGED <<env, config, returncodes, generated, output, version,
                 micromegas, gm2calc, decay, block, errors, warnings,
                 exitStatus, abort>>

\* GM2CalcOutput(output, version)
GM2CalcOutput(report, v) ==
  IF GM2CalcParse(report).status = "ok"
  THEN [type |-> "GM2CalcOutput", data |-> GM2CalcParse(report).result,
        version |-> v]
  ELSE None

\* run_gm2calc, lines 197 and 198
RunGM2End ==
  /\ pc = "gm2calc"
  /\ \E rc \in ExitCodes, report \in GM2RunReports :
       /\ Waited(GM2Cmd, rc)
       /\ IF ProcessFailed(rc)
          THEN RunFailed /\ UNCHANGED <<output, gm2calc, warnings>>
          ELSE /\ output' = report
               /\ gm2calc' = GM2CalcOutput(report, version)
               /\ Parsed(GM2CalcParse(report), "run_sdecay")
  /\ UNCHANGED secVars
  /\ UNCHANGED <<env, config, events, files, generated, version, micromegas,
                 decay, block>>

\* "Block DUMMY #\n     1     0.00000000E+00   #\n"
DummyBlock == Block("DUMMY", <<>>, << <<1, PyFloat(FZero), "">> >>)

\* run_sdecay, lines 204 to 208: the copy, the dummy block, the start
RunSdecay ==
  /\ pc = "run_sdecay"
  /\ pc' = "sdecay"
  /\ files' = Put(files, "SD_leshouches.in", Append(files[".slha1"], DummyBlock))
  /\ Popen(SdecayCmd)
  /\ UNCHANGED secVars
  /\ UNCHANGED <<env, config, returncodes, generated, output, version,
                 micromegas, gm2calc, decay, block, errors, warnings,
                 exitStatus, abort>>

\* os.remove, shutil.move
Remove(d, k) == [x \in DOMAIN d \ {k} |-> d[x]]
Move(d, from, to) == Remove(Put(d, to, d[from]), from)

\* head.pre_comment = ["#"]
WithPreComment(b) == [b EXCEPT !.pre_comment = <<"#">>]

\* run_sdecay, lines 208 to 217
RunSdecayEnd ==
  /\ pc = "sdecay"
  /\ \E rc \in ExitCodes, result \in SdecayDocs :
       /\ Waited(SdecayCmd, rc)
       /\ IF ProcessFailed(rc)
          THEN RunFailed /\ UNCHANGED <<files, decay>>
          ELSE /\ pc' = "merge"
               /\ files' = Move(Remove(Put(files, "sdecay_slha.out", result),
                                       "SD_leshouches.in"),
                                "sdecay_slha.out", ".sdecay_raw")
               /\ decay' = [type |-> "tuple",
                            dcinfo |-> WithPreComment(result.dcinfo),
                            decays |-> [i \in 1..Len(result.decays) |->
                                          WithPreComment(result.decays[i])]]
               /\ UNCHANGED <<exitStatus, abort, errors>>
  /\ UNCHANGED secVars
  /\ UNCHANGED <<env, config, events, generated, output, version, micromegas,
                 gm2calc, block, warnings>>

\* slha2.add_block(b)
AddBlock(doc, b) == Append(doc, b)

RECURSIVE AddBlocks(_, _)
AddBlocks(doc, bs) ==
  IF bs = <<>> THEN doc ELSE AddBlocks(AddBlock(doc, Head(bs)), Tail(bs))

\* a merge that adds the magnetic-moment block before the relic-density block
MergedGM2First(slha2, mm, gm2, dcinfo, decays) ==
  AddBlocks(slha2, <<GM2CalcBlock(gm2), MicromegasBlock(mm), dcinfo>> \o decays)

\* run, lines 39 to 44: the merged document
Merged(slha2, mm, gm2, dcinfo, decays) ==
  AddBlocks(AddBlock(AddBlock(AddBlock(slha2, MicromegasBlock(mm)),
                              GM2CalcBlock(gm2)),
                     dcinfo),
            decays)

\* run, lines 39 to 47
Merge ==
  /\ pc = "merge"
  /\ pc' = "convert_to_sinderin"
  /\ files' = Put(files, ".slha2",
                  Merged(files[".slha2"], micromegas, gm2calc, decay.dcinfo,
                         decay.decays))
  /\ events' = Append(events, WriteSlha2)
  /\ UNCHANGED secVars
  /\ UNCHANGED <<env, config, child, returncodes, generated, output, version,
                 micromegas, gm2calc, decay, block, errors, warnings,
                 exitStatus, abort>>

\* convert_to_sinderin, lines 220 to 224
ConvertToSinderin ==
  /\ pc = "convert_to_sinderin"
  /\ IF config.sinderin = "None"
     THEN /\ Exit(1, "config", <<ConfigError("Sinderin")>>)
          /\ UNCHANGED <<child, events>>
     ELSE /\ pc' = "sinderin"
          /\ Popen(SinderinCmd)
          /\ UNCHANGED <<exitStatus, abort, errors>>
  /\ UNCHANGED secVars
  /\ UNCHANGED <<env, config, returncodes, files, generated, output, version,
                 micromegas, gm2calc, decay, block, warnings>>

\* convert_to_sinderin, lines 224 to 226; run and main return
ConvertToSinderinEnd ==
  /\ pc = "sinderin"
  /\ \E rc \in ExitCodes :
       /\ Waited(SinderinCmd, rc)
       /\ IF ProcessFailed(rc)
          THEN RunFailed /\ UNCHANGED <<files, events>>
          ELSE /\ pc' = "done"
               /\ files' = Put(files, ".sinderin", <<PlainBlock("stdout")>>)
               /\ events' = Append(events, WriteSinderin)
               /\ UNCHANGED <<exitStatus, abort, errors>>
  /\ UNCHANGED secVars
  /\ UNCHANGED <<env, config, generated, output, version, micromegas, gm2calc,
                 decay, block, warnings>>

Init ==
  /\ pc = "Config.__init__"
  /\ env \in Envs
  /\ RunIdle
  /\ SecIdle

Next ==
  \/ ConfigInit \/ SetupSimsusy \/ SetupGm2calc \/ SetupMicromegas
  \/ SetupMicromegasCompiled \/ SetupSdecay
  \/ RunSimsusy \/ RunSimsusyEnd \/ RunSimsusyV1 \/ RunSimsusyV1End
  \/ RunMicromegas \/ RunMicromegasEnd
  \/ RunGM2Version \/ RunGM2VersionEnd \/ RunGM2 \/ RunGM2End
  \/ RunSdecay \/ RunSdecayEnd
  \/ Merge \/ ConvertToSinderin \/ ConvertToSinderinEnd

Spec == Init /\ [][Next]_vars

(***************************************************************************)
(* The two parsers and their blocks on their own: MicromegasOutput(output) *)
(* and GM2CalcOutput(output), each followed by to_slha_block().            *)
(***************************************************************************)
ParseInit ==
  /\ env = NoEnv
  /\ SecIdle
  /\ \/ pc = "MicromegasOutput" /\ \E r \in MicromegasReports : RunStart(r)
     \/ pc = "GM2CalcOutput" /\ \E r \in GM2Reports : RunStart(r)

\* MicromegasOutput.__init__
MicromegasOutputInit ==
  /\ pc = "MicromegasOutput"
  /\ micromegas' = MicromegasParse(output).result
  /\ Parsed(MicromegasParse(output), "MicromegasOutput.to_slha_block")
  /\ UNCHANGED secVars
  /\ UNCHANGED <<env, config, child, events, returncodes, files, generated,
                 output, version, gm2calc, decay, block>>

MicromegasToSlhaBlock ==
  /\ pc = "MicromegasOutput.to_slha_block"
  /\ block' = MicromegasBlock(micromegas)
  /\ pc' = "returned"
  /\ UNCHANGED secVars
  /\ UNCHANGED <<env, config, child, events, returncodes, files, generated,
                 output, version, micromegas, gm2calc, decay, errors, warnings,
                 exitStatus, abort>>

\* GM2CalcOutput.__init__
GM2CalcOutputInit ==
  /\ pc = "GM2CalcOutput"
  /\ gm2calc' = GM2CalcOutput(output, version)
  /\ Parsed(GM2CalcParse(output), "GM2CalcOutput.to_slha_block")
  /\ UNCHANGED secVars
  /\ UNCHANGED <<env, config, child, events, returncodes, files, generated,
                 output, version, micromegas, decay, block>>

GM2CalcToSlhaBlock ==
  /\ pc = "GM2CalcOutput.to_slha_block"
  /\ block' = GM2CalcBlock(gm2calc)
  /\ pc' = "returned"
  /\ UNCHANGED secVars
  /\ UNCHANGED <<env, config, child, events, returncodes, files, generated,
                 output, version, micromegas, gm2calc, decay, errors, warnings,
                 exitStatus, abort>>

ParseNext ==
  \/ MicromegasOutputInit \/ MicromegasToSlhaBlock
  \/ GM2CalcOutputInit \/ GM2CalcToSlhaBlock

SpecParse == ParseInit /\ [][ParseNext]_vars

(***************************************************************************)
(* What a number is, stated on the whole text and not by scanning:         *)
(* [-+]? (digits | digits? . digits) [eE] [-+]? digits                     *)
(***************************************************************************)
IsDigits(s) == s # <<>> /\ \A i \in 1..Len(s) : s[i] \in Digit

Unsigned(s) == IF s # <<>> /\ s[1] \in Sign THEN SubSeq(s, 2, Len(s)) ELSE s

IsMantissa(s) ==
  \/ IsDigits(s)
  \/ \E k \in 1..Len(s) :
       /\ s[k] = "."
       /\ \A i \in 1..k - 1 : s[i] \in Digit
       /\ IsDigits(SubSeq(s, k + 1, Len(s)))

IsGM2Number(s) ==
  \E k \in 1..Len(s) :
    /\ s[k] \in {"e", "E"}
    /\ IsMantissa(Unsigned(SubSeq(s, 1, k - 1)))
    /\ IsDigits(Unsigned(SubSeq(s, k + 1, Len(s))))

IsBlank(s) == \A i \in 1..Len(s) : s[i] \in Space

\* <<p, q>> such that ln is whitespace up to p, and a number from p to q
NumberPrefixes(ln) ==
  {pq \in (1..Len(ln)) \X (1..Len(ln)) :
     /\ pq[1] <= pq[2]
     /\ IsBlank(SubSeq(ln, 1, pq[1] - 1))
     /\ IsGM2Number(SubSeq(ln, pq[1], pq[2]))}

\* the longest number the line starts with
LongestNumberPrefix(ln) ==
  LET P == NumberPrefixes(ln)
      pq == CHOOSE x \in P : \A y \in P : y[2] <= x[2]
  IN  SubSeq(ln, pq[1], pq[2])

\* the line is whitespace and then a number, and nothing more
IsNumberOnly(ln) == \E pq \in NumberPrefixes(ln) : pq[2] = Len(ln)

\* <<p, j, r, q>>: whitespace up to p, a label from p to j that neither starts
\* nor ends with whitespace, whitespace from j+1 up to r, a number from r to q
LabelledNumbers(ln) ==
  LET n == Len(ln)
      Starts == {p \in 1..n : IsBlank(SubSeq(ln, 1, p - 1)) /\ ln[p] \notin Space}
      Numbers == {rq \in (1..n) \X (1..n) :
                    rq[1] <= rq[2] /\ IsGM2Number(SubSeq(ln, rq[1], rq[2]))}
  IN  {x \in {<<p, j, rq[1], rq[2]>> : p \in Starts, j \in 1..n, rq \in Numbers} :
         /\ x[1] <= x[2] /\ x[2] + 1 < x[3]
         /\ ln[x[2]] \notin Space
         /\ IsBlank(SubSeq(ln, x[2] + 1, x[3] - 1))}

\* the shortest label, and the longest number after it
FirstLabelledNumber(ln) ==
  LET L == LabelledNumbers(ln)
  IN  CHOOSE x \in L : \A y \in L : x[2] < y[2] \/ (x[2] = y[2] /\ y[4] <= x[4])

\* the loop body has just run on a line that does not start a section
BodyStepOnPlainLine ==
  secPc = "body" /\ secPc' = "end" /\ ~StartsSection(line)

StoredUnder(key, text) ==
  blocks' = Put(blocks, tag, Put(blocks[tag], key, Float(text)))

Last(q) == q[Len(q)]

SomeProcessFailed == \E i \in 1..Len(returncodes) : returncodes[i] # 0

Names(doc) == [i \in 1..Len(doc) |-> doc[i].name]

\* the steps of run in events: all of them but the make of the set-up and
\* the writing of the converter's output, which is part of the converter step
IsRunStep(e) == e \notin {"make", WriteSinderin}
RunSteps == SelectSeq(events, IsRunStep)

\* C1: once an external process has returned a non-zero exit status, no
\* process is started and no file is written any more: the processes started
\* and the files written (the merged document and the converter's output
\* among them) stay what they are, and no child is running.
C1_NothingAfterFailure ==
  [][SomeProcessFailed =>
       /\ events' = events /\ files' = files /\ child' = "" /\ child = ""
       /\ returncodes' = returncodes]_vars

\* the magnetic-moment run has failed and the driver has exited, with the
\* earlier stages done
C1_Witness ==
  /\ pc = "exit" /\ abort = "process"
  /\ Last(returncodes) # 0 /\ Len(returncodes) > 1
  /\ Last(events) = GM2Cmd

\* the steps of a run in which nothing fails
ExpectedSteps ==
  <<SimsusyCmd, SimsusyV1Cmd, MicromegasCmd, GM2VersionCmd, WriteGM2In, GM2Cmd,
    SdecayCmd, WriteSlha2, SinderinCmd>>

\* C2: when a run has ended in which every external process returned 0 and
\* every parse succeeded, its steps were, once each and in this order, the
\* two spectrum generator runs, the relic-density run, the version query,
\* the writing of .gm2in, the magnetic-moment run, the decay run, the writing
\* of the merged document and the model converter.
C2_EveryStepOnceInOrder ==
  (/\ pc \in {"done", "exit"}
   /\ SimsusyCmd \in Range(events)
   /\ ~SomeProcessFailed
   /\ abort \notin {"parse", "exception"})
    => RunSteps = ExpectedSteps

\* C3: the merged document that is written is the blocks of the generated
\* extended-format document, unchanged and in their order, then the blocks
\* DM, GM2 and DCINFO, then the decay blocks in the order of the decay report.
C3_MergeOrder ==
  WriteSlha2 \in Range(events) =>
    LET base == generated[".slha2"]
        doc == files[".slha2"]
    IN  /\ Names(doc) = Names(base) \o <<"DM", "GM2", "DCINFO">>
                          \o Names(decay.decays)
        /\ SubSeq(doc, 1, Len(base)) = base
        /\ SubSeq(doc, Len(base) + 4, Len(doc)) = decay.decays

\* a merged document of two base blocks and two decay blocks has been written
C3_Witness ==
  /\ WriteSlha2 \in Range(events)
  /\ Len(generated[".slha2"]) > 1 /\ Len(decay.decays) > 1
  /\ Len(files[".slha2"]) > 6

\* C4: a driver that exited because an external process returned a non-zero
\* exit status has exited with a non-zero status.
C4_FailureExitsNonZero ==
  (pc = "exit" /\ abort = "process") => exitStatus # 0

\* C6: a driver that exited because of a configuration error had not started
\* the spectrum generator (nor, then, any later stage).
C6_ConfigErrorsBeforeStages ==
  (pc = "exit" /\ abort = "config") => SimsusyCmd \notin Range(events)

(***************************************************************************)
(* The claims about the parsers and their blocks, under SpecParse.         *)
(***************************************************************************)
IsMicromegasRun == "omega" \in DOMAIN output
IsGM2Run == "best" \in DOMAIN output

\* the constructor has run
Constructed == pc \notin {"MicromegasOutput", "GM2CalcOutput"}

\* the lists of matches of the required fields of the report
FieldMatches ==
  IF IsMicromegasRun THEN <<output.omega, output.proton, output.neutron>>
  ELSE <<output.best>>

SomeFieldUnmatched == \E i \in 1..Len(FieldMatches) : FieldMatches[i] = <<>>

ManyMatched == {i \in 1..Len(FieldMatches) : Len(FieldMatches[i]) > 1}

\* the texts used for a report all of whose fields are matched
FirstMatches ==
  IF IsMicromegasRun
  THEN <<output.omega[1], output.proton[1][1], output.proton[1][2],
         output.neutron[1][1], output.neutron[1][2]>>
  ELSE <<output.best[1][1], output.best[1][2]>>

\* C5: when a required field has no match, the constructor ends the run and
\* leaves no record; when every required field has one match or more, no
\* check ends the run, one warning is logged for each field with two matches
\* or more, and the record that is built holds, for each field, its first
\* match.
C5_MatchCount ==
  Constructed =>
    /\ SomeFieldUnmatched =>
         /\ pc = "exit" /\ abort = "parse" /\ exitStatus # 0
         /\ micromegas = None /\ gm2calc = None /\ block = None
    /\ ~SomeFieldUnmatched =>
         /\ abort # "parse"
         /\ Len(warnings) = Cardinality(ManyMatched)
         /\ micromegas # None =>
              /\ micromegas.omega_h2.val = Float(output.omega[1])
              /\ micromegas.proton_si.val = Float(output.proton[1][1])
              /\ micromegas.proton_sd.val = Float(output.proton[1][2])
              /\ micromegas.neutron_si.val = Float(output.neutron[1][1])
              /\ micromegas.neutron_sd.val = Float(output.neutron[1][2])
         /\ gm2calc # None =>
              /\ gm2calc.data["1L+2L"].val = output.best[1][1]
              /\ gm2calc.data["1L+2L_unc"].val = output.best[1][2]
         /\ (IsMicromegasRun /\ \A i \in 1..5 : FloatOK(FirstMatches[i]))
              => micromegas # None

\* relic densities were matched twice, with different texts, and the record
\* was built with a warning
C5_Witness ==
  /\ Constructed /\ IsMicromegasRun /\ micromegas # None
  /\ Len(output.omega) > 1 /\ output.omega[1] # output.omega[2]
  /\ Len(output.proton) = 1
  /\ warnings # <<>>

EntryKeys(b) == [i \in 1..Len(b.entries) |-> b.entries[i][1]]
EntryValues(b) == [i \in 1..Len(b.entries) |-> b.entries[i][2]]

\* C7: the block of a relic-density record is named DM and holds, in this
\* order, omega_h2, proton_si, proton_sd, neutron_si, neutron_sd under the
\* keys 1 to 5; the block of a magnetic-moment record is named GM2 and holds,
\* in this order, 1L, 1L+2L, 1L+2L_unc, 1L_no_resum, 1L+2L_no_resum, delta_mu,
\* WHN, WHL, BHL, BHR, BLR, 2L_photonic, 2L_fermion, 2L_a under the keys 1, 2,
\* 9, 10, 20, 100, 101, 102, 103, 104, 105, 201, 202, 203.
C7_IndexConvention ==
  block # None =>
    /\ micromegas # None =>
         /\ block.name = "DM"
         /\ EntryKeys(block) = <<1, 2, 3, 4, 5>>
         /\ EntryValues(block) =
              <<micromegas.omega_h2, micromegas.proton_si,
                micromegas.proton_sd, micromegas.neutron_si,
                micromegas.neutron_sd>>
    /\ gm2calc # None =>
         /\ block.name = "GM2"
         /\ EntryKeys(block) =
              <<1, 2, 9, 10, 20, 100, 101, 102, 103, 104, 105, 201, 202, 203>>
         /\ EntryValues(block) =
              LET d == gm2calc.data
              IN  <<d["1L"], d["1L+2L"], d["1L+2L_unc"], d["1L_no_resum"],
                    d["1L+2L_no_resum"], d["delta_mu"], d["WHN"], d["WHL"],
                    d["BHL"], d["BHR"], d["BLR"], d["2L_photonic"],
                    d["2L_fermion"], d["2L_a"]>>

\* the block of a relic-density record whose proton_sd and neutron_si differ
C7_Witness ==
  /\ block # None /\ micromegas # None
  /\ micromegas.proton_sd # micromegas.neutron_si
  /\ block.name = "DM"

\* C8: every value of the field set a parser returned is a float.
C8_EveryFieldIsFloat ==
  /\ micromegas # None =>
       \A k \in DOMAIN micromegas : micromegas[k].type = "float"
  /\ gm2calc # None =>
       \A k \in DOMAIN gm2calc.data : gm2calc.data[k].type = "float"

\* the names of the required fields, and the calculator of the report
FieldNames ==
  IF IsMicromegasRun THEN <<"omega_DM", "proton", "neutron">> ELSE <<"1L+2L">>

Calculator == IF IsMicromegasRun THEN "micrOMEGAs" ELSE "GM2Calc"

FirstUnmatched ==
  CHOOSE i \in 1..Len(FieldMatches) :
    /\ FieldMatches[i] = <<>>
    /\ \A j \in 1..i - 1 : FieldMatches[j] # <<>>

\* C9: the error logged for a required field without a match names that
\* field and the calculator whose report was searched.
C9_ErrorNamesFieldAndSource ==
  (Constructed /\ abort = "parse") =>
    /\ Last(errors).field = FieldNames[FirstUnmatched]
    /\ Last(errors).source = Calculator

=============================================================================
